---- MODULE Spec2Model ----
(***************************************************************************)
(* A model of the sparring-partner crates.                                 *)
(*                                                                         *)
(*   src/src/lib.rs      PunchKind, Combo, Weight, Graph                   *)
(*   src/hmm/src/lib.rs  ProbabilityVector                                 *)
(*                                                                         *)
(* Four specifications share the module, one per component:               *)
(*   Spec        a Graph built by Graph::new and driven by insert          *)
(*   SpecWeight  the four addition forms of Weight on chosen operands      *)
(*   SpecPV      ProbabilityVector::try_new on chosen arrays               *)
(*   SpecCombo   PunchKind::as_u8 / u8::from over the punches of a Combo   *)
(* The variables of the components a specification does not drive keep     *)
(* their initial values.                                                   *)
(***************************************************************************)
EXTENDS Integers, Sequences, FiniteSets, TLC

VARIABLES
    \* Graph<(PunchKind, PunchKind), Weight>
    nodes,      \* Graph.nodes: the HashMap, a function from its keys to Weight
    ret,        \* the value the last insert returned (Option<Weight>)
    last,       \* history: the key of the last insert, <<>> before any call
    calls,      \* history: how many insert calls each pair has received
    panicked,   \* an insert call panicked (unwrap on None, or overflow)
    \* Weight arithmetic
    build,      \* "debug" (overflow checks on) or "release" (wrapping)
    w, n,       \* the operands, as usize values
    sumWW,      \* Weight(w) + Weight(n)
    sumWU,      \* Weight(w) + n
    accWW,      \* x = Weight(w); x += Weight(n)
    accWU,      \* x = Weight(w); x += n
    \* ProbabilityVector
    src,        \* the array [(T, f64); N] handed to try_new
    pv,         \* what try_new returned, Pending before the call
    \* Combo / PunchKind
    combo,      \* Combo.0
    codes,      \* as_u8 of the punches converted so far
    codesFrom   \* u8::from of the punches converted so far

gvars == <<nodes, ret, last, calls, panicked>>
wvars == <<w, n, sumWW, sumWU, accWW, accWU>>
pvars == <<src, pv>>
cvars == <<combo, codes, codesFrom>>
vars == <<gvars, build, wvars, pvars, cvars>>

(***************************************************************************)
(* Bounds of the model.                                                    *)
(***************************************************************************)
\* insert calls made on one graph
MaxInserts == 5
\* distinct pairs the insert calls of one run touch
MaxEdges == 2
\* N, the length of the array handed to try_new
MaxN == 4
\* punches in a Combo
MaxCombo == 3

(***************************************************************************)
(* Option<T> and the outcome of a call that may panic: the empty tuple is  *)
(* None (a panic), a 1-tuple is Some(x) (a returned x).                    *)
(***************************************************************************)
None == <<>>
Some(x) == <<x>>
Panic == <<>>
Returned(x) == <<x>>

(***************************************************************************)
(* usize: 64 bits, kept as four 16-bit limbs, least significant first.     *)
(***************************************************************************)
UsizeBits == 64
LimbBase == 2^16
NumLimbs == UsizeBits \div 16

Usize(k) == [i \in 1..NumLimbs |-> IF i = 1 THEN k ELSE 0]
UsizeMax == [i \in 1..NumLimbs |-> LimbBase - 1]

\* the carry into limb i of a + b
RECURSIVE AddCarry(_, _, _)
AddCarry(a, b, i) ==
    IF i = 1 THEN 0
    ELSE (a[i-1] + b[i-1] + AddCarry(a, b, i-1)) \div LimbBase

\* a + b modulo 2^64
WrappingAdd(a, b) ==
    [i \in 1..NumLimbs |-> (a[i] + b[i] + AddCarry(a, b, i)) % LimbBase]

Overflows(a, b) == AddCarry(a, b, NumLimbs + 1) = 1

BuildModes == {"debug", "release"}

\* the `+` of usize: panics on overflow with overflow checks on, wraps without
UsizePlus(a, b, mode) ==
    IF Overflows(a, b) /\ mode = "debug" THEN Panic
    ELSE Returned(WrappingAdd(a, b))

\* usize's Ord: compare from the most significant limb
RECURSIVE LimbsLeq(_, _, _)
LimbsLeq(a, b, i) ==
    IF i = 0 THEN TRUE
    ELSE IF a[i] # b[i] THEN a[i] < b[i]
    ELSE LimbsLeq(a, b, i - 1)

UsizeLeq(a, b) == LimbsLeq(a, b, NumLimbs)

(***************************************************************************)
(* Weight(usize), a tuple struct: field 0 is the first component.          *)
(***************************************************************************)
WeightNew(weight) == <<weight>>
WeightAsUsize(self) == self[1]
WeightFrom(weight) == WeightNew(weight)

\* derive(PartialOrd, Ord)
WeightLeq(a, b) == UsizeLeq(a[1], b[1])

\* impl Add<usize> for Weight
WeightAddUsize(self, rhs, mode) ==
    LET sum == UsizePlus(self[1], rhs, mode)
    IN  IF sum = Panic THEN Panic ELSE Returned(WeightFrom(sum[1]))

\* the left operand added to itself
WeightAddSelf(self, rhs, mode) == WeightAddUsize(self, self[1], mode)

\* impl Add<Weight> for Weight
WeightAddWeight(self, rhs, mode) == WeightAddUsize(self, rhs[1], mode)

\* a counter that wraps at four
NarrowAddAssignUsize(self, rhs, mode) ==
    Returned(WeightFrom(Usize((self[1][1] + rhs[1]) % 4)))

\* an assignment where the sum was meant
AssignUsize(self, rhs, mode) == Returned(WeightFrom(rhs))

\* impl AddAssign<usize> for Weight: the new *self
WeightAddAssignUsize(self, rhs, mode) ==
    LET sum == UsizePlus(self[1], rhs, mode)
    IN  IF sum = Panic THEN Panic ELSE Returned(WeightFrom(sum[1]))

\* impl AddAssign<Weight> for Weight: the new *self
WeightAddAssignWeight(self, rhs, mode) == WeightAddAssignUsize(self, rhs[1], mode)

(***************************************************************************)
(* PunchKind                                                               *)
(***************************************************************************)
\* the variants, in declaration order
Variants ==
    <<"Jab", "Cross", "LeadHook", "RearHook", "LeadUppercut", "RearUppercut">>

PunchKind == {Variants[i] : i \in 1..Len(Variants)}

\* the explicit discriminants of the enum
Discriminant(punch) ==
    CASE punch = "Jab" -> 1
      [] punch = "Cross" -> 2
      [] punch = "LeadHook" -> 3
      [] punch = "RearHook" -> 4
      [] punch = "LeadUppercut" -> 5
      [] punch = "RearUppercut" -> 6

\* impl From<PunchKind> for u8: `punch as u8`
U8From(punch) == Discriminant(punch) % 256

\* a code counted from zero
as_u8_zero_based(self) == (Discriminant(self) - 1) % 256

\* PunchKind::as_u8
as_u8(self) == U8From(self)

(***************************************************************************)
(* Graph<(PunchKind, PunchKind), Weight>                                   *)
(***************************************************************************)
\* HashMap::new, HashMap::insert, HashMap::get_mut
HashMapNew == <<>>
HashMapInsert(m, k, v) ==
    [x \in (DOMAIN m) \cup {k} |-> IF x = k THEN v ELSE m[x]]
HashMapGet(m, k) == IF k \in DOMAIN m THEN Some(m[k]) ELSE None

\* an array that lost its last variant
punchesShort == <<"Jab", "Cross", "LeadHook", "RearHook", "LeadUppercut">>

\* the array of Default::default
punches ==
    <<"Jab", "Cross", "LeadHook", "RearHook", "LeadUppercut", "RearUppercut">>

\* punches.into_iter().flat_map(|first| punches.into_iter().map(|next| (first, next)))
FlatMapPairs ==
    [i \in 1..(Len(punches) * Len(punches)) |->
        <<punches[((i - 1) \div Len(punches)) + 1],
          punches[((i - 1) % Len(punches)) + 1]>>]

\* .fold(HashMap::new(), |mut acc, x| { acc.insert(x, Weight::new(0)); acc })
RECURSIVE FoldInsert(_, _, _)
FoldInsert(seq, i, acc) ==
    IF i > Len(seq) THEN acc
    ELSE FoldInsert(seq, i + 1, HashMapInsert(acc, seq[i], WeightNew(Usize(0))))

\* a cross product that skips the self-pairs
GraphDefaultNoLoops ==
    FoldInsert(SelectSeq(FlatMapPairs, LAMBDA x : x[1] # x[2]), 1, HashMapNew)

\* impl Default for Graph: the nodes of the new graph
GraphDefault == FoldInsert(FlatMapPairs, 1, HashMapNew)

\* Graph::new
GraphNew == GraphDefault

RECURSIVE SumCalls(_)
SumCalls(S) ==
    IF S = {} THEN 0
    ELSE LET p == CHOOSE q \in S : TRUE
         IN  calls[p] + SumCalls(S \ {p})

Touched == {p \in DOMAIN calls : calls[p] > 0}

\* the bounds on the calls of one run
CanCall == ~panicked /\ SumCalls(Touched) < MaxInserts
CanCallOn(key) ==
    calls[key] = 0 => Cardinality(Touched) < MaxEdges

\* an undirected edge: the pair ordered by discriminant
EdgeKeyUnordered(first, next) ==
    IF Discriminant(first) <= Discriminant(next)
    THEN <<first, next>> ELSE <<next, first>>

\* the key insert looks up: &(*first, next)
EdgeKey(first, next) == <<first, next>>

\* the entry moved to the reversed key
StoreWeightSwapped(m, key, weight) ==
    HashMapInsert([x \in (DOMAIN m) \ {key} |-> m[x]], <<key[2], key[1]>>, weight)

\* the write through the reference get_mut returned
StoreWeight(m, key, weight) == [m EXCEPT ![key] = weight]

\* the weight after the increment, handed back
InsertReturnNew(prev_val, next_weight) == Some(next_weight)

\* what insert returns, given the weight it read and the weight it wrote
InsertReturn(prev_val, next_weight) ==
    IF prev_val = WeightFrom(Usize(0)) THEN None ELSE Some(prev_val)

\* Graph::insert(&mut self, first, next); the sum is taken as either build
\* takes it, with overflow checks or without
Insert ==
    /\ CanCall
    /\ \E first \in PunchKind, next \in PunchKind :
        LET key == EdgeKey(first, next)
            found == HashMapGet(nodes, key)
        IN  /\ CanCallOn(<<first, next>>)
            /\ last' = <<first, next>>
            /\ calls' = [calls EXCEPT ![<<first, next>>] = @ + 1]
            /\ IF found = None
               THEN \* unwrap on None
                    /\ panicked' = TRUE
                    /\ UNCHANGED <<nodes, ret>>
               ELSE LET prev_val == found[1] IN
                    \E next_weight \in
                        {WeightAddAssignUsize(prev_val, Usize(1), mode) :
                            mode \in BuildModes} :
                        IF next_weight = Panic
                        THEN \* attempt to add with overflow
                             /\ panicked' = TRUE
                             /\ UNCHANGED <<nodes, ret>>
                        ELSE /\ nodes' = StoreWeight(nodes, key, next_weight[1])
                             /\ ret' = InsertReturn(prev_val, next_weight[1])
                             /\ UNCHANGED panicked
    /\ UNCHANGED <<build, wvars, pvars, cvars>>

(***************************************************************************)
(* Weight arithmetic on chosen operands                                    *)
(***************************************************************************)
Pending == <<"pending", "pending">>

\* operands around the limb boundaries and the ends of the range
Operands ==
    { Usize(0), Usize(1), Usize(2), Usize(LimbBase - 1),
      <<0, 1, 0, 0>>, <<LimbBase - 1, LimbBase - 1, 0, 0>>,
      <<0, 0, 0, LimbBase \div 2>>,
      <<LimbBase - 2, LimbBase - 1, LimbBase - 1, LimbBase - 1>>,
      UsizeMax }

\* Weight::new(w) + Weight::new(n)
AddWW ==
    /\ sumWW = Pending
    /\ sumWW' = WeightAddWeight(WeightNew(w), WeightNew(n), build)
    /\ UNCHANGED <<gvars, build, w, n, sumWU, accWW, accWU, pvars, cvars>>

\* Weight::new(w) + n
AddWU ==
    /\ sumWU = Pending
    /\ sumWU' = WeightAddUsize(WeightNew(w), n, build)
    /\ UNCHANGED <<gvars, build, w, n, sumWW, accWW, accWU, pvars, cvars>>

\* let mut x = Weight::new(w); x += Weight::new(n)
AddAssignWW ==
    /\ accWW = Pending
    /\ accWW' = WeightAddAssignWeight(WeightNew(w), WeightNew(n), build)
    /\ UNCHANGED <<gvars, build, w, n, sumWW, sumWU, accWU, pvars, cvars>>

\* let mut x = Weight::new(w); x += n
AddAssignWU ==
    /\ accWU = Pending
    /\ accWU' = WeightAddAssignUsize(WeightNew(w), n, build)
    /\ UNCHANGED <<gvars, build, w, n, sumWW, sumWU, accWW, pvars, cvars>>

(***************************************************************************)
(* f64, on the values the model needs: NaN, and the non-negative finite    *)
(* values below 8 that are whole multiples of 2^-56. A finite value is     *)
(* (hi * 2^28 + lo) * 2^-56. On these values addition is computed exactly  *)
(* as IEEE 754 does: the exact sum, rounded to 53 significant bits, ties   *)
(* to even.                                                                *)
(***************************************************************************)
MantissaDigits == 53
HalfFrac == 2^28

F64(hi, lo) == [class |-> "finite", hi |-> hi, lo |-> lo]
NaN == [class |-> "nan", hi |-> 0, lo |-> 0]

\* the literals of the crate and of its test, as rustc reads them
F0_0 == F64(0, 0)
F0_1 == F64(26843545, 161061274)
F0_2 == F64(53687091, 53687092)
F0_3 == F64(80530636, 214748364)
F0_4 == F64(107374182, 107374184)
F0_5 == F64(134217728, 0)
F1_0 == F64(268435456, 0)

RECURSIVE BitLen(_)
BitLen(x) == IF x = 0 THEN 0 ELSE 1 + BitLen(x \div 2)

\* round the exact value (hi, lo) to MantissaDigits significant bits
RoundNearestEven(hi, lo) ==
    LET len == IF hi = 0 THEN BitLen(lo) ELSE 28 + BitLen(hi)
        drop == len - MantissaDigits
    IN  IF drop <= 0 THEN F64(hi, lo)
        ELSE LET unit == 2^drop
                 rem == lo % unit
                 odd == ((lo \div unit) % 2) = 1
                 up == rem * 2 > unit \/ (rem * 2 = unit /\ odd)
                 low == lo - rem + (IF up THEN unit ELSE 0)
             IN  F64(hi + (low \div HalfFrac), low % HalfFrac)

\* a + b of f64
F64Add(a, b) ==
    IF a.class = "nan" \/ b.class = "nan" THEN NaN
    ELSE LET lo == a.lo + b.lo
         IN  RoundNearestEven(a.hi + b.hi + (lo \div HalfFrac), lo % HalfFrac)

\* a == b of f64: NaN equals nothing
F64Eq(a, b) == a.class = "finite" /\ b.class = "finite" /\ a.hi = b.hi /\ a.lo = b.lo

(***************************************************************************)
(* ProbabilityVector<T, N>                                                 *)
(***************************************************************************)
Probabilities == {F0_0, F0_1, F0_2, F0_3, F0_4, F0_5, F1_0, NaN}

\* src.iter().map(|(_, probability)| probability).copied().sum::<f64>()
RECURSIVE IterSum(_, _, _)
IterSum(array, i, acc) ==
    IF i > Len(array) THEN acc
    ELSE IterSum(array, i + 1, F64Add(acc, array[i][2]))

probability_sum(array) == IterSum(array, 1, F0_0)

\* a sum within one unit in the last place of 1.0
SumNearOne(sum) ==
    /\ sum.class = "finite"
    /\ \/ sum.hi = F1_0.hi /\ sum.lo <= 16
       \/ sum.hi = F1_0.hi - 1 /\ sum.lo >= HalfFrac - 8

\* probability_sum == 1_f64
SumIsOne(sum) == F64Eq(sum, F1_0)

\* ProbabilityVector::new_unchecked
new_unchecked(array) ==
    [_states |-> [i \in 1..Len(array) |-> array[i][1]],
     _probabilities |-> [i \in 1..Len(array) |-> array[i][2]]]

\* ProbabilityVector::try_new
try_new(array) ==
    IF SumIsOne(probability_sum(array))
    THEN Some(new_unchecked(array))
    ELSE None

TryNew ==
    /\ pv = Pending
    /\ pv' = try_new(src)
    /\ UNCHANGED <<gvars, build, wvars, src, cvars>>

(***************************************************************************)
(* Combo, and the numeric code of each of its punches                      *)
(***************************************************************************)
\* Combo::new: punches.as_ref().to_vec()
ComboNew(given) == [i \in 1..Len(given) |-> given[i]]

\* the next punch of the combo through both conversions
Convert ==
    /\ Len(codes) < Len(combo)
    /\ codes' = Append(codes, as_u8(combo[Len(codes) + 1]))
    /\ codesFrom' = Append(codesFrom, U8From(combo[Len(codes) + 1]))
    /\ UNCHANGED <<gvars, build, wvars, pvars, combo>>

(***************************************************************************)
(* Specifications                                                          *)
(***************************************************************************)
SeqsUpTo(S, len) == UNION {[1..k -> S] : k \in 0..len}

GraphInit ==
    /\ nodes = GraphNew
    /\ ret = None
    /\ last = <<>>
    /\ calls = [p \in PunchKind \X PunchKind |-> 0]
    /\ panicked = FALSE

WeightInit(ws, ns) ==
    /\ w \in ws
    /\ n \in ns
    /\ sumWW = Pending /\ sumWU = Pending
    /\ accWW = Pending /\ accWU = Pending

PVInit(arrays) ==
    /\ src \in arrays
    /\ pv = Pending

ComboInit(given) ==
    /\ combo \in {ComboNew(g) : g \in given}
    /\ codes = <<>>
    /\ codesFrom = <<>>

Init ==
    /\ GraphInit
    /\ build = "debug"
    /\ WeightInit({Usize(0)}, {Usize(0)})
    /\ PVInit({<<>>})
    /\ ComboInit({<<>>})

Next == Insert

Spec == Init /\ [][Next]_vars

InitWeight ==
    /\ GraphInit
    /\ build \in BuildModes
    /\ WeightInit(Operands, Operands)
    /\ PVInit({<<>>})
    /\ ComboInit({<<>>})

NextWeight == AddWW \/ AddWU \/ AddAssignWW \/ AddAssignWU

SpecWeight == InitWeight /\ [][NextWeight]_vars

\* the arrays of try_new: slot i holds the label i and one of the probabilities
Arrays ==
    {[i \in DOMAIN ps |-> <<i, ps[i]>>] : ps \in SeqsUpTo(Probabilities, MaxN)}

InitPV ==
    /\ GraphInit
    /\ build = "debug"
    /\ WeightInit({Usize(0)}, {Usize(0)})
    /\ PVInit(Arrays)
    /\ ComboInit({<<>>})

NextPV == TryNew

SpecPV == InitPV /\ [][NextPV]_vars

InitCombo ==
    /\ GraphInit
    /\ build = "debug"
    /\ WeightInit({Usize(0)}, {Usize(0)})
    /\ PVInit({<<>>})
    /\ ComboInit(SeqsUpTo(PunchKind, MaxCombo))

NextCombo == Convert

SpecCombo == InitCombo /\ [][NextCombo]_vars

(***************************************************************************)
(* Properties of the graph, under Spec                                     *)
(***************************************************************************)
AllPairs == PunchKind \X PunchKind
Zero == WeightNew(Usize(0))
JabCross == <<"Jab", "Cross">>
CrossJab == <<"Cross", "Jab">>

\* a step that is a call of insert
InsertStep == calls' # calls

\* C1: after k >= 1 calls of insert(a, b) on a graph from Graph::new, the
\* weight stored for (a, b) is k; five calls of insert(Jab, Cross) leave 5.
C1_WeightIsCallCount ==
    \A p \in AllPairs :
        calls[p] >= 1 => HashMapGet(nodes, p) = Some(WeightNew(Usize(calls[p])))

C1_FiveJabCross ==
    /\ calls[JabCross] = 5
    /\ nodes[JabCross] = WeightNew(Usize(5))

\* C2: insert(a, b) returns the weight (a, b) had before the call: None exactly
\* when that weight was 0, Some(that weight) otherwise; so the k-th call on a
\* fresh graph returns None for k = 1 and Some(k - 1) for k >= 2.
C2_ReturnsPriorWeight ==
    /\ [][InsertStep =>
            /\ (ret' = None) <=> (nodes[last'] = Zero)
            /\ (ret' # None) => (ret' = Some(nodes[last']))]_vars
    /\ [](last # <<>> =>
            ret = IF calls[last] = 1 THEN None
                  ELSE Some(WeightNew(Usize(calls[last] - 1))))

C2_FifthReturnsFour ==
    /\ last = JabCross
    /\ calls[JabCross] = 5
    /\ ret = Some(WeightNew(Usize(4)))

\* C3: the graph of Graph::new holds exactly the 36 ordered pairs over the six
\* variants, the six self-pairs among them, each with weight 0.
C3_FreshGraphComplete ==
    last = <<>> =>
        /\ DOMAIN nodes = AllPairs
        /\ Cardinality(DOMAIN nodes) = 36
        /\ \A a \in PunchKind : <<a, a>> \in DOMAIN nodes
        /\ \A p \in DOMAIN nodes : nodes[p] = Zero

C3_Fresh ==
    /\ last = <<>>
    /\ Cardinality(DOMAIN nodes) = 36
    /\ nodes[<<"RearUppercut", "RearUppercut">>] = Zero

\* C4: after any sequence of insert calls the keys of the map are the 36 pairs
\* of the construction: insert adds no key and removes none.
C4_KeysNeverChange ==
    /\ DOMAIN nodes = DOMAIN GraphNew
    /\ DOMAIN nodes = AllPairs

C4_AfterInserts ==
    /\ SumCalls(Touched) = MaxInserts
    /\ Cardinality(Touched) = MaxEdges
    /\ DOMAIN nodes = AllPairs

\* C5: insert is total: in every state reached from Graph::new the lookup of
\* every pair succeeds, and no call ends in a panic.
C5_InsertTotal ==
    /\ ~panicked
    /\ \A first \in PunchKind, next \in PunchKind :
            HashMapGet(nodes, EdgeKey(first, next)) # None

C5_LastVariantInserted ==
    /\ last = <<"RearUppercut", "RearUppercut">>
    /\ ~panicked
    /\ ret = None

\* C6: no step lowers a stored weight, a weight that is positive stays
\* positive, and insert returns None for a pair only on its first call.
C6_WeightsNeverDecrease ==
    [][/\ \A p \in DOMAIN nodes :
            /\ p \in DOMAIN nodes'
            /\ WeightLeq(nodes[p], nodes'[p])
            /\ (nodes[p] # Zero) => (nodes'[p] # Zero)
       /\ (InsertStep /\ ret' = None) => (calls[last'] = 0)]_vars

C6_CountedUp ==
    /\ nodes[JabCross] = WeightNew(Usize(MaxInserts))
    /\ ret # None

\* C10: insert(a, b) changes the weight of (a, b) only, the reversed pair
\* (b, a) included among the unchanged; so each pair's weight is the number of
\* insert calls made with exactly that pair.
C10_OnlyTheCalledPairChanges ==
    /\ [][InsertStep =>
            \A q \in DOMAIN nodes :
                q # last' => (q \in DOMAIN nodes' /\ nodes'[q] = nodes[q])]_vars
    /\ [](\A p \in AllPairs :
            HashMapGet(nodes, p) = Some(WeightNew(Usize(calls[p]))))

C10_BothDirections ==
    /\ calls[JabCross] = 2
    /\ calls[CrossJab] = 3
    /\ nodes[JabCross] = WeightNew(Usize(2))
    /\ nodes[CrossJab] = WeightNew(Usize(3))

(***************************************************************************)
(* Properties of try_new, under SpecPV                                     *)
(***************************************************************************)
\* the sum of the first k probabilities, each added to the sum of those before
RECURSIVE PrefixSum(_, _)
PrefixSum(array, k) ==
    IF k = 0 THEN F0_0 ELSE F64Add(PrefixSum(array, k - 1), array[k][2])

\* C7: try_new returns Some exactly when the probabilities, added in sequence
\* order, sum to exactly 1.0, and None for every other sum;
\* [0.1, 0.4, 0.3, 0.2] yields Some.
C7_SomeIffSumIsOne ==
    pv # Pending =>
        /\ (pv # None) <=> (PrefixSum(src, Len(src)) = F1_0)
        /\ (pv # None) => (pv = Some(new_unchecked(src)))

C7_TestVector ==
    /\ src = <<<<1, F0_1>>, <<2, F0_4>>, <<3, F0_3>>, <<4, F0_2>>>>
    /\ pv # Pending
    /\ pv # None

(***************************************************************************)
(* Properties of the numeric codes, under SpecCombo                        *)
(***************************************************************************)
\* C8: the code of the i-th declared variant is i, for i in 1..6; distinct
\* variants have distinct codes; as_u8 and u8::from agree.
C8_CodesInDeclarationOrder ==
    \A i \in 1..Len(codes) :
        /\ codes[i] \in 1..6
        /\ Variants[codes[i]] = combo[i]
        /\ codes[i] = codesFrom[i]
        /\ \A j \in 1..Len(codes) : codes[i] = codes[j] => combo[i] = combo[j]

C8_AllConverted ==
    /\ combo = <<"Jab", "RearHook", "RearUppercut">>
    /\ codes = <<1, 4, 6>>
    /\ codesFrom = <<1, 4, 6>>

(***************************************************************************)
(* Properties of Weight arithmetic, under SpecWeight                       *)
(***************************************************************************)
\* w + n is within the range of usize: w <= usize::MAX - n
InRange(a, b) == UsizeLeq(a, [i \in 1..NumLimbs |-> LimbBase - 1 - b[i]])

\* r = a + b as numbers: the digits of r - a - b, taken from the most
\* significant, sum to zero (a partial sum outside {0, 1} cannot return to 0)
RECURSIVE DigitsCancel(_, _, _, _, _)
DigitsCancel(r, a, b, i, acc) ==
    IF i = 0 THEN acc = 0
    ELSE LET d == acc * LimbBase + r[i] - a[i] - b[i]
         IN  d \in {0, 1} /\ DigitsCancel(r, a, b, i - 1, d)

IsSumOf(r, a, b) == DigitsCancel(r, a, b, NumLimbs, 0)

FormIsSum(result) ==
    result # Pending =>
        /\ result # Panic
        /\ IsSumOf(WeightAsUsize(result[1]), w, n)

\* C9: for w and n with w + n within the range of usize, Weight(w) + Weight(n),
\* Weight(w) + n, x += Weight(n) and x += n on x = Weight(w) all give
\* Weight(w + n).
C9_FourFormsAgree ==
    InRange(w, n) =>
        /\ FormIsSum(sumWW) /\ FormIsSum(sumWU)
        /\ FormIsSum(accWW) /\ FormIsSum(accWU)

C9_CarryAcrossLimbs ==
    /\ w = <<LimbBase - 1, LimbBase - 1, 0, 0>>
    /\ n = Usize(1)
    /\ sumWW = Returned(WeightNew(<<0, 0, 1, 0>>))
    /\ sumWU = sumWW /\ accWW = sumWW /\ accWU = sumWW

====
